---- MODULE Spec2Model ----
(***************************************************************************)
(* A model of geo_grab.py: the coordinate converter, the record builder,   *)
(* the four exporters and main's orchestration.                            *)
(*                                                                         *)
(* Representation.  A Python str is a sequence of one-character strings,   *)
(* so that substring tests, joins and splits are computed.  A Path is the  *)
(* sequence of its components, each component a str.  An angle is an       *)
(* integer number of arc-seconds, i.e. 3600 times the decimal-degree value *)
(* the code computes (d + m/60 + s/3600 is d*3600 + m*60 + s arc-seconds), *)
(* which keeps the arithmetic exact for whole-number d, m, s.              *)
(***************************************************************************)
EXTENDS Integers, Sequences, FiniteSets, TLC

\* ------------------------------------------------------------------ bounds
\* Largest degrees / minutes / seconds magnitude tried by the converter runs.
MaxMag == 1
\* Largest number of images in the directory main scans.
MaxImages == 2
\* Longest record list handed directly to write_kmz / write_csv.
MaxRecords == 2

\* ------------------------------------------------------------------ values
\* Python's None (not a str: its single element is no character).
None == <<"<None>">>
\* A file, a directory or an archive that does not exist.
Absent == [kind |-> "absent"]

S_N == <<"N">>
S_E == <<"E">>
S_S == <<"S">>
S_W == <<"W">>
S_NE == <<"N", "E">>
S_None == <<"N", "o", "n", "e">>
S_files == <<"f", "i", "l", "e", "s">>
S_jpg == <<".", "j", "p", "g">>
S_jpeg == <<".", "j", "p", "e", "g">>

\* ------------------------------------------------------- str and Path helpers
\* Python's `b in s` for two strs: b is a contiguous substring of s.
IsSubstr(b, s) ==
    \E k \in 0..(Len(s) - Len(b)) : SubSeq(s, k + 1, k + Len(b)) = b

RECURSIVE Digits(_)
\* The decimal digits of a natural number.
Digits(n) ==
    LET d == <<"0", "1", "2", "3", "4", "5", "6", "7", "8", "9">>[(n % 10) + 1]
    IN  IF n < 10 THEN <<d>> ELSE Append(Digits(n \div 10), d)

\* str() of a float holding x/scale: sign, integer part, '.', and the
\* fraction cut to four places (Python prints the shortest round-trip
\* form; either way the characters are digits, '-' and '.').
FloatStr(x, scale) ==
    LET a == IF x < 0 THEN -x ELSE x
        frac == ((a % scale) * 10000) \div scale
        pad == IF frac < 10 THEN <<"0", "0", "0">>
               ELSE IF frac < 100 THEN <<"0", "0">>
               ELSE IF frac < 1000 THEN <<"0">> ELSE <<>>
        sign == IF x < 0 THEN <<"-">> ELSE <<>>
    IN  sign \o Digits(a \div scale) \o <<".">> \o pad \o Digits(frac)

\* str(v) for a value that is a str or None.
Str(v) == IF v = None THEN S_None ELSE v

RECURSIVE Join(_, _)
\* sep.join(fields)
Join(fields, sep) ==
    IF Len(fields) = 0 THEN <<>>
    ELSE IF Len(fields) = 1 THEN fields[1]
    ELSE fields[1] \o sep \o Join(Tail(fields), sep)

RECURSIVE Split(_, _)
\* line.split(c) for a one-character separator c.
Split(line, c) ==
    IF \A k \in 1..Len(line) : line[k] # c THEN <<line>>
    ELSE LET k == CHOOSE j \in 1..Len(line) :
                      line[j] = c /\ \A h \in 1..(j - 1) : line[h] # c
         IN  <<SubSeq(line, 1, k - 1)>> \o Split(SubSeq(line, k + 1, Len(line)), c)

\* Path.name: the last component.
PathName(p) == p[Len(p)]
\* Path.parent
PathParent(p) == SubSeq(p, 1, Len(p) - 1)
\* Path.stem: the name up to its last '.', the whole name when it has no
\* '.' after the first character.
PathStem(p) ==
    LET n == PathName(p)
        dots == {k \in 2..Len(n) : n[k] = "."}
    IN  IF dots = {} THEN n
        ELSE SubSeq(n, 1, (CHOOSE k \in dots : \A h \in dots : h <= k) - 1)
\* p.relative_to(base) is defined only when base is a prefix of p.
IsRelativeTo(p, base) ==
    Len(base) <= Len(p) /\ SubSeq(p, 1, Len(base)) = base
RelativeTo(p, base) == SubSeq(p, Len(base) + 1, Len(p))

\* dict.get(key, default)
Get(map, key, default) == IF key \in DOMAIN map THEN map[key] ELSE default

\* ------------------------------------------------------ coordinate converter
\* A variant that tests b == 'N' alone.
dms_to_dd_only_N(d, m, s, b) ==
    LET dd == (d * 3600) + (m * 60) + s
    IN  IF b = S_N THEN dd ELSE (-1) * dd

dms_to_dd(d, m, s, b) ==
    LET dd == (d * 3600) + (m * 60) + s
    IN  IF IsSubstr(b, S_NE) THEN dd ELSE (-1) * dd

\* ------------------------------------------------------------ record builder
get_lat_lon_elev(gps_info) ==
    LET latv == Get(gps_info, "GPSLatitude", <<0, 0, 0>>)
        lonv == Get(gps_info, "GPSLongitude", <<0, 0, 0>>)
        lat == dms_to_dd(latv[1], latv[2], latv[3],
                         Get(gps_info, "GPSLatitudeRef", S_N))
        lon == dms_to_dd(lonv[1], lonv[2], lonv[3],
                         Get(gps_info, "GPSLongitudeRef", S_E))
        elev == Get(gps_info, "GPSAltitude", 0)
    IN  <<<<lat, lon>>, elev>>

\* --------------------------------------------------------------- file system
\* Python's `a | b` on two dicts: b's entries win.
Merge(a, b) ==
    [k \in (DOMAIN a) \cup (DOMAIN b) |-> IF k \in DOMAIN b THEN b[k] ELSE a[k]]

\* str(path): the components joined by '/'.
PathStr(p) == Join(p, <<"/">>)
\* The working directory, an absolute path (its first component is empty).
Cwd == << <<>>, <<"w">> >>
\* Path.resolve() of a path relative to the working directory.
Resolve(p) == Cwd \o p

\* The directory main scans, and a second directory for direct calls.
Directory == << <<"d">> >>
OtherDir == << <<"e">> >>
\* The staging directory tempfile.TemporaryDirectory() creates.
TmpDir == << <<"t">> >>

N_a_jpg == <<"a">> \o S_jpg
N_a_jpeg == <<"a">> \o S_jpeg
N_bc_jpg == <<"b", ",", "c">> \o S_jpg
N_de_jpg == <<"d", "\n", "e">> \o S_jpg

\* An EXIF DateTime as cameras write it, and one in a free format.
T_exif == <<"2", "0", "2", "4", ":", "0", "1", ":", "0", "2", " ",
            "0", "3", ":", "0", "4", ":", "0", "5">>
T_free == <<"J", "a", "n", " ", "2", ",", " ", "2", "0", "2", "4">>

\* Image files: unreadable (Image.open raises), readable without a GPS
\* block, and two with one (the second with only an altitude tag and no
\* DateTime).
ImgUnreadable == [readable |-> FALSE, gps |-> [k \in {} |-> 0], base |-> [k \in {} |-> 0]]
ImgNoGps == [readable |-> TRUE, gps |-> [k \in {} |-> 0], base |-> [DateTime |-> T_exif]]
ImgGpsFull ==
    [readable |-> TRUE,
     gps |-> [GPSLatitude |-> <<40, 41, 21>>, GPSLatitudeRef |-> S_N,
              GPSLongitude |-> <<74, 2, 40>>, GPSLongitudeRef |-> S_W,
              GPSAltitude |-> 12],
     base |-> [DateTime |-> T_exif]]
ImgGpsPartial ==
    [readable |-> TRUE,
     gps |-> [GPSAltitude |-> 35],
     base |-> [k \in {} |-> 0]]
ImageFiles == {ImgUnreadable, ImgNoGps, ImgGpsFull, ImgGpsPartial}

\* The names the glob '*.jp*g' can yield in the scanned directory.
GlobNames == {N_a_jpg, N_a_jpeg, N_bc_jpg}

\* Sequences of length at most n over S.
SeqUpTo(S, n) == UNION {[1..k -> S] : k \in 0..n}

\* The web-map services format_url knows.
Services == <<"google", "osm", "apple", "bing">>
Range(f) == {f[k] : k \in DOMAIN f}

S_o == <<"o">>
S_kml == <<".", "k", "m", "l">>
S_kmz == <<".", "k", "m", "z">>
S_geojson == <<".", "g", "e", "o", "j", "s", "o", "n">>
S_csv == <<".", "c", "s", "v">>
S_url == <<".", "u", "r", "l">>

\* Path.suffix: the name from its last '.' on ('' when it has none).
PathSuffix(p) ==
    SubSeq(PathName(p), Len(PathStem(p)) + 1, Len(PathName(p)))
\* Path.with_suffix(suffix) and Path.with_stem(stem)
WithSuffix(p, suffix) == PathParent(p) \o <<PathStem(p) \o suffix>>
WithStem(p, stem) == PathParent(p) \o <<stem \o PathSuffix(p)>>

\* A file system is a function from the paths that exist to what they hold.
NoFiles == [q \in {} |-> Absent]
Read(sys, p) == IF p \in DOMAIN sys THEN sys[p] ELSE Absent
Put(sys, p, c) == [q \in (DOMAIN sys) \cup {p} |-> IF q = p THEN c ELSE sys[q]]
\* shutil.rmtree(d): d and everything below it goes.
RemoveTree(sys, d) == [q \in {x \in DOMAIN sys : ~IsRelativeTo(x, d)} |-> sys[q]]
\* d.iterdir(): the paths directly inside d.
IterDir(sys, d) == {q \in DOMAIN sys : PathParent(q) = d /\ Len(q) = Len(d) + 1}

\* A file that was at a destination before the run.
OldFile == [kind |-> "old"]

\* How writing a file of n items can end: it succeeds, the open fails (the
\* destination is untouched), or a write fails after `at` items went out.
Outcomes(n) ==
    {[fail |-> "none", at |-> n], [fail |-> "open", at |-> 0]}
        \cup {[fail |-> "write", at |-> k] : k \in 0..n}

Min(a, b) == IF a < b THEN a ELSE b

\* ------------------------------------------------------------------ write_url
ServiceStr(service) ==
    CASE service = "google" -> <<"g", "o", "o", "g", "l", "e">>
      [] service = "osm" -> <<"o", "s", "m">>
      [] service = "apple" -> <<"a", "p", "p", "l", "e">>
      [] service = "bing" -> <<"b", "i", "n", "g">>
      [] OTHER -> <<"?">>

\* The link: the service's template with the two coordinates substituted.
format_url(lat, lon, service) ==
    IF service \in Range(Services)
    THEN [template |-> service, lat |-> FloatStr(lat, 3600), lon |-> FloatStr(lon, 3600)]
    ELSE [template |-> "None", lat |-> <<>>, lon |-> <<>>]

\* write_url(img_path, url): the shortcut goes to img_path.with_suffix('.url').
write_url(sys, img_path, url) ==
    Put(sys, WithSuffix(img_path, S_url), [kind |-> "url", url |-> url])

\* ------------------------------------------------------------------ write_kml
\* One Placemark.  rec is (img_path, (lat, lon), elev, timestamp).
KmlPlacemark(out_file, rec) ==
    LET rel == RelativeTo(rec[1], PathParent(out_file))
    IN  [id |-> <<"i", "m", "g", "_">> \o PathName(rec[1]),
         name |-> PathName(rec[1]),
         src |-> rel,
         when |-> rec[4],
         href |-> rel,
         coordinates |-> <<rec[2][2], rec[2][1], rec[3]>>]

\* What write_kml leaves at out_file and whether it raised.  relative_to
\* raises ValueError at the first record whose image is not below the KML
\* file's directory; the file then holds the Placemarks before it.
write_kml(sys, out_file, info, oc) ==
    LET bad == {j \in 1..Len(info) : ~IsRelativeTo(info[j][1], PathParent(out_file))}
        stop == IF bad = {} THEN Len(info)
                ELSE (CHOOSE j \in bad : \A h \in bad : j <= h) - 1
        wrote == IF oc.fail = "write" THEN Min(oc.at, stop) ELSE stop
        raised == oc.fail # "none" \/ bad # {}
    IN  IF oc.fail = "open" THEN [sys |-> sys, raised |-> TRUE]
        ELSE [sys |-> Put(sys, out_file,
                          [kind |-> "kml",
                           name |-> PathName(out_file),
                           placemarks |-> [j \in 1..wrote |-> KmlPlacemark(out_file, info[j])],
                           complete |-> ~raised]),
              raised |-> raised]

\* -------------------------------------------------------------- write_geojson
GeoFeature(rec) ==
    [coordinates |-> <<rec[2][2], rec[2][1], rec[3]>>,
     timestamp |-> rec[4],
     filepath |-> PathStr(rec[1])]

write_geojson(sys, out_file, info, oc) ==
    IF oc.fail = "open" THEN [sys |-> sys, raised |-> TRUE]
    ELSE [sys |-> Put(sys, out_file,
                      [kind |-> "geojson",
                       features |-> [j \in 1..oc.at |-> GeoFeature(info[j])],
                       complete |-> oc.fail = "none"]),
          raised |-> oc.fail # "none"]

\* ------------------------------------------------------------------ write_csv
CsvHeader ==
    Join(<< <<"N", "a", "m", "e">>,
            <<"L", "a", "t", "i", "t", "u", "d", "e">>,
            <<"L", "o", "n", "g", "i", "t", "u", "d", "e">>,
            <<"E", "l", "e", "v", "a", "t", "i", "o", "n">>,
            <<"T", "i", "m", "e", "s", "t", "a", "m", "p">>,
            <<"F", "i", "l", "e", "p", "a", "t", "h">> >>, <<",">>) \o <<"\n">>

\* A variant that writes longitude first, as KML and GeoJSON do.
CsvRow_lon_first(rec) ==
    PathName(rec[1]) \o <<",">> \o FloatStr(rec[2][2], 3600) \o <<",">>
        \o FloatStr(rec[2][1], 3600) \o <<",">> \o FloatStr(rec[3], 1) \o <<",">>
        \o rec[4] \o <<",">> \o PathStr(Resolve(rec[1])) \o <<"\n">>

\* The f-string of one data row.
CsvRow(rec) ==
    PathName(rec[1]) \o <<",">> \o FloatStr(rec[2][1], 3600) \o <<",">>
        \o FloatStr(rec[2][2], 3600) \o <<",">> \o FloatStr(rec[3], 1) \o <<",">>
        \o rec[4] \o <<",">> \o PathStr(Resolve(rec[1])) \o <<"\n">>

RECURSIVE CsvRows(_, _)
\* The first k data rows, concatenated.
CsvRows(info, k) ==
    IF k = 0 THEN <<>> ELSE CsvRows(info, k - 1) \o CsvRow(info[k])

write_csv(sys, out_file, info, oc) ==
    IF oc.fail = "open" THEN [sys |-> sys, raised |-> TRUE]
    ELSE [sys |-> Put(sys, out_file,
                      [kind |-> "csv",
                       text |-> CsvHeader \o CsvRows(info, oc.at),
                       complete |-> oc.fail = "none"]),
          raised |-> oc.fail # "none"]

\* --------------------------------------------------------------- EXIF reader
\* A variant that returns the merged dict even without a GPS block.
get_geo_exif_always(file) ==
    Merge(file.gps, [DateTime |-> Get(file.base, "DateTime", None)])

\* get_geo_exif on a readable image (Image.open raises on any other).
get_geo_exif(file) ==
    LET gps == file.gps
        time_info == [DateTime |-> Get(file.base, "DateTime", None)]
    IN  IF DOMAIN gps # {} THEN Merge(gps, time_info) ELSE [k \in {} |-> 0]

\* ---------------------------------------------------------------------- state
VARIABLES
    entry,      \* the function this run enters: main, write_kmz, write_csv, get_lat_lon_elev
    pc,         \* where control is
    listing,    \* what get_info's glob yields, in traversal order: [path, file]
    args,       \* main's arguments
    n,          \* how many images the loop of main has consumed
    _files,     \* main's record list (the `info` of a direct exporter call)
    fs,         \* the files written: destinations, shortcuts, staging
    log,        \* the reads, shortcut writes and exporter invocations, in order
    frame,      \* the locals of the running write_kmz call
    raw_gps,    \* the GPS tags handed to get_lat_lon_elev
    converted   \* what get_lat_lon_elev returned

vars == <<entry, pc, listing, args, n, _files, fs, log, frame, raw_gps, converted>>

\* The suffix main forces on each destination.
FormatSuffix(fmt) ==
    CASE fmt = "kml" -> S_kml
      [] fmt = "kmz" -> S_kmz
      [] fmt = "geojson" -> S_geojson
      [] fmt = "csv" -> S_csv

\* (directory / name).with_suffix(suffix)
Dest(fmt, name) == WithSuffix(Directory \o <<name>>, FormatSuffix(fmt))

RECURSIVE UrlKeys_unfiltered(_, _)
\* A variant without the `if s in Services` filter.
UrlKeys_unfiltered(services, k) ==
    IF k = 0 THEN <<>>
    ELSE LET prev == UrlKeys_unfiltered(services, k - 1)
         IN  IF services[k] \notin Range(prev) THEN Append(prev, services[k]) ELSE prev

RECURSIVE UrlKeys(_, _)
\* The keys of {s: format_url(lat, lon, s) for s in services if s in Services}
\* in insertion order: the recognised names, each once.
UrlKeys(services, k) ==
    IF k = 0 THEN <<>>
    ELSE LET prev == UrlKeys(services, k - 1)
         IN  IF services[k] \in Range(Services) /\ services[k] \notin Range(prev)
             THEN Append(prev, services[k]) ELSE prev

RECURSIVE WriteUrls(_, _, _, _, _)
\* The first k shortcuts of one image: img.with_stem(stem_service), then
\* write_url.
WriteUrls(sys, img, ll, keys, k) ==
    IF k = 0 THEN sys
    ELSE write_url(WriteUrls(sys, img, ll, keys, k - 1),
                   WithStem(img, PathStem(img) \o <<"_">> \o ServiceStr(keys[k])),
                   format_url(ll[1], ll[2], keys[k]))

Event(op, img, what, info) == [op |-> op, img |-> img, what |-> what, info |-> info]

IdleFrame ==
    [phase |-> "idle", out_file |-> <<>>, info |-> <<>>, k |-> 0,
     pre |-> Absent, left |-> {}]

NoArgs ==
    [w_url |-> FALSE, services |-> <<>>, kml |-> None, kmz |-> None,
     geojson |-> None, csv |-> None]

\* The arguments main is run with: a --services list with an unknown and a
\* repeated name, and a name or None for each export format.
ServiceArgs == {<<"osm", "mapquest", "google", "osm">>}
MainArgs ==
    [w_url : BOOLEAN, services : ServiceArgs, kml : {None, S_o}, kmz : {None, S_o},
     geojson : {None, S_o}, csv : {None, S_o}]

\* Directory listings: distinct names, each an image file of some kind.
Listings ==
    {l \in SeqUpTo([path : {Directory \o <<nm>> : nm \in GlobNames}, file : ImageFiles],
                   MaxImages) :
        \A a, b \in 1..Len(l) : a # b => l[a].path # l[b].path}

Init ==
    /\ entry = "main"
    /\ pc = "iter"
    /\ listing \in Listings
    /\ args \in MainArgs
    /\ n = 0
    /\ _files = <<>>
    /\ fs = NoFiles
    /\ log = <<>>
    /\ frame = IdleFrame
    /\ raw_gps = [k \in {} |-> 0]
    /\ converted = <<>>

\* ----------------------------------------------------------------------- main
\* One turn of `for img, geo_info in get_info(directory)`.
main_skips(geo_info) == DOMAIN geo_info = {}

MainImage ==
    /\ pc = "iter"
    /\ n < Len(listing)
    /\ LET img == listing[n + 1].path
           file == listing[n + 1].file
           read == Event("read", img, "", <<>>)
       IN  IF ~file.readable
           THEN \* Image.open raises inside the generator; nothing catches it
                /\ pc' = "aborted"
                /\ log' = Append(log, read)
                /\ UNCHANGED <<n, _files, fs>>
           ELSE LET geo_info == get_geo_exif(file)
                IN  IF main_skips(geo_info)
                    THEN /\ n' = n + 1
                         /\ log' = Append(log, read)
                         /\ UNCHANGED <<pc, _files, fs>>
                    ELSE LET cv == get_lat_lon_elev(geo_info)
                             rec == <<img, cv[1], cv[2], Str(geo_info["DateTime"])>>
                             keys == UrlKeys(args.services, Len(args.services))
                         IN  \E f \in (IF args.w_url THEN 0..Len(keys) ELSE {0}) :
                               \* f > 0: the f-th write_url raises
                               LET wrote == IF ~args.w_url THEN 0
                                            ELSE IF f = 0 THEN Len(keys) ELSE f - 1
                               IN  /\ _files' = Append(_files, rec)
                                   /\ fs' = WriteUrls(fs, img, cv[1], keys, wrote)
                                   /\ log' = Append(log, read) \o
                                        [j \in 1..wrote |-> Event("url", img, keys[j], <<>>)]
                                   /\ n' = n + 1
                                   /\ pc' = IF f = 0 THEN "iter" ELSE "aborted"
    /\ UNCHANGED <<entry, listing, args, frame, raw_gps, converted>>

\* The generator is exhausted: the loop ends.
MainLoopEnd ==
    /\ pc = "iter"
    /\ n = Len(listing)
    /\ pc' = "kml"
    /\ UNCHANGED <<entry, listing, args, n, _files, fs, log, frame, raw_gps, converted>>

MainKml ==
    /\ pc = "kml"
    /\ IF args.kml = None
       THEN pc' = "kmz" /\ UNCHANGED <<fs, log>>
       ELSE \E oc \in Outcomes(Len(_files)) :
              LET r == write_kml(fs, Dest("kml", args.kml), _files, oc)
              IN  /\ fs' = r.sys
                  /\ log' = Append(log, Event("export", <<>>, "kml", _files))
                  /\ pc' = IF r.raised THEN "aborted" ELSE "kmz"
    /\ UNCHANGED <<entry, listing, args, n, _files, frame, raw_gps, converted>>

MainKmz ==
    /\ pc = "kmz"
    /\ IF args.kmz = None
       THEN pc' = "geojson" /\ UNCHANGED log
       ELSE /\ pc' = "call_kmz"
            /\ log' = Append(log, Event("export", <<>>, "kmz", _files))
    /\ UNCHANGED <<entry, listing, args, n, _files, fs, frame, raw_gps, converted>>

\* A variant that goes on to the CSV exporter after write_geojson raised.
MainGeojson_continues ==
    /\ pc = "geojson"
    /\ IF args.geojson = None
       THEN pc' = "csv" /\ UNCHANGED <<fs, log>>
       ELSE \E oc \in Outcomes(Len(_files)) :
              LET r == write_geojson(fs, Dest("geojson", args.geojson), _files, oc)
              IN  /\ fs' = r.sys
                  /\ log' = Append(log, Event("export", <<>>, "geojson", _files))
                  /\ pc' = "csv"
    /\ UNCHANGED <<entry, listing, args, n, _files, frame, raw_gps, converted>>

MainGeojson ==
    /\ pc = "geojson"
    /\ IF args.geojson = None
       THEN pc' = "csv" /\ UNCHANGED <<fs, log>>
       ELSE \E oc \in Outcomes(Len(_files)) :
              LET r == write_geojson(fs, Dest("geojson", args.geojson), _files, oc)
              IN  /\ fs' = r.sys
                  /\ log' = Append(log, Event("export", <<>>, "geojson", _files))
                  /\ pc' = IF r.raised THEN "aborted" ELSE "csv"
    /\ UNCHANGED <<entry, listing, args, n, _files, frame, raw_gps, converted>>

MainCsv ==
    /\ pc = "csv"
    /\ IF args.csv = None
       THEN pc' = "done" /\ UNCHANGED <<fs, log>>
       ELSE \E oc \in Outcomes(Len(_files)) :
              LET r == write_csv(fs, Dest("csv", args.csv), _files, oc)
              IN  /\ fs' = r.sys
                  /\ log' = Append(log, Event("export", <<>>, "csv", _files))
                  /\ pc' = IF r.raised THEN "aborted" ELSE "done"
    /\ UNCHANGED <<entry, listing, args, n, _files, frame, raw_gps, converted>>

\* ------------------------------------------------------------------ write_kmz
\* The staged paths: kml = Path(tmp) / f'{out_file.stem}.kml', files = Path(tmp) / 'files'.
StagedKml(out_file) == TmpDir \o <<PathStem(out_file) \o S_kml>>
StagedFiles == TmpDir \o <<S_files>>
Dir == [kind |-> "dir"]

\* TemporaryDirectory.__exit__: the staging directory is removed, whether
\* or not the body raised.
TmpExitOnSuccessOnly(sys, exc) == IF exc THEN sys ELSE RemoveTree(sys, TmpDir)

TmpExit(sys, exc) == RemoveTree(sys, TmpDir)

\* ZipFile.__exit__: close() ends the archive with the entries written so
\* far, whether or not the body raised; the file stays where it is.
ZipExit(sys, out_file, exc) ==
    Put(sys, out_file, [Read(sys, out_file) EXCEPT !.complete = ~exc])

\* kmz.write(path, arcname)
ZipWrite(sys, out_file, path, arcname) ==
    Put(sys, out_file,
        [Read(sys, out_file) EXCEPT
            !.entries = Append(@, [name |-> arcname, data |-> Read(sys, path)])])

\* kmz_info = [(files / i[0].name, *i[1:]) for i in info]
kmz_info(info) ==
    [j \in 1..Len(info) |->
        <<StagedFiles \o <<PathName(info[j][1])>>, info[j][2], info[j][3], info[j][4]>>]

\* The destination write_kmz is called with.
KmzOut == IF entry = "main" THEN Dest("kmz", args.kmz) ELSE Dest("kmz", S_o)

\* Where control goes when write_kmz returns or raises.
AfterKmz(exc) ==
    IF entry = "main" THEN (IF exc THEN "aborted" ELSE "geojson")
    ELSE (IF exc THEN "raised" ELSE "returned")

\* write_kmz is entered: the staging directory and files/ are made.
KmzEnter ==
    /\ pc = "call_kmz"
    /\ frame' = [phase |-> "copy", out_file |-> KmzOut, info |-> _files, k |-> 0,
                 pre |-> Read(fs, KmzOut), left |-> {}]
    /\ fs' = Put(Put(fs, TmpDir, Dir), StagedFiles, Dir)
    /\ pc' = "in_kmz"
    /\ UNCHANGED <<entry, listing, args, n, _files, log, raw_gps, converted>>

\* One turn of the copy loop: shutil.copyfile(img, files / img.name), which
\* may raise.
KmzCopy ==
    /\ pc = "in_kmz"
    /\ frame.phase = "copy"
    /\ frame.k < Len(frame.info)
    /\ LET img == frame.info[frame.k + 1][1]
           img_dest == StagedFiles \o <<PathName(img)>>
       IN  \/ /\ fs' = Put(fs, img_dest, [kind |-> "image", src |-> img])
              /\ frame' = [frame EXCEPT !.k = @ + 1]
              /\ pc' = pc
           \/ /\ fs' = TmpExit(fs, TRUE)
              /\ frame' = [frame EXCEPT !.phase = "raised"]
              /\ pc' = AfterKmz(TRUE)
    /\ UNCHANGED <<entry, listing, args, n, _files, log, raw_gps, converted>>

\* The copy loop is over: write_kml(kml, kmz_info) into the staging directory.
KmzWriteKml ==
    /\ pc = "in_kmz"
    /\ frame.phase = "copy"
    /\ frame.k = Len(frame.info)
    /\ \E oc \in Outcomes(Len(frame.info)) :
         LET r == write_kml(fs, StagedKml(frame.out_file), kmz_info(frame.info), oc)
         IN  IF r.raised
             THEN /\ fs' = TmpExit(r.sys, TRUE)
                  /\ frame' = [frame EXCEPT !.phase = "raised"]
                  /\ pc' = AfterKmz(TRUE)
             ELSE /\ fs' = r.sys
                  /\ frame' = [frame EXCEPT !.phase = "zip_open"]
                  /\ pc' = pc
    /\ UNCHANGED <<entry, listing, args, n, _files, log, raw_gps, converted>>

\* zipfile.ZipFile(out_file, 'w'): the destination is opened for writing,
\* which empties it, or the open raises and the destination is untouched.
KmzZipOpen ==
    /\ pc = "in_kmz"
    /\ frame.phase = "zip_open"
    /\ \/ /\ fs' = Put(fs, frame.out_file,
                       [kind |-> "zip", entries |-> <<>>, complete |-> FALSE])
          /\ frame' = [frame EXCEPT !.phase = "zip_kml"]
          /\ pc' = pc
       \/ /\ fs' = TmpExit(fs, TRUE)
          /\ frame' = [frame EXCEPT !.phase = "raised"]
          /\ pc' = AfterKmz(TRUE)
    /\ UNCHANGED <<entry, listing, args, n, _files, log, raw_gps, converted>>

\* kmz.write(kml, kml.relative_to(tmp)), which may raise.
KmzZipKml ==
    /\ pc = "in_kmz"
    /\ frame.phase = "zip_kml"
    /\ LET kml == StagedKml(frame.out_file)
       IN  \/ /\ fs' = ZipWrite(fs, frame.out_file, kml, RelativeTo(kml, TmpDir))
              /\ frame' = [frame EXCEPT !.phase = "zip_files",
                                        !.left = IterDir(fs, StagedFiles)]
              /\ pc' = pc
           \/ /\ fs' = TmpExit(ZipExit(fs, frame.out_file, TRUE), TRUE)
              /\ frame' = [frame EXCEPT !.phase = "raised"]
              /\ pc' = AfterKmz(TRUE)
    /\ UNCHANGED <<entry, listing, args, n, _files, log, raw_gps, converted>>

\* One turn of `for fl in files.iterdir()`, in whatever order the
\* directory lists: kmz.write(fl, fl.relative_to(tmp)), which may raise.
KmzZipFile ==
    /\ pc = "in_kmz"
    /\ frame.phase = "zip_files"
    /\ \E fl \in frame.left :
         \/ /\ fs' = ZipWrite(fs, frame.out_file, fl, RelativeTo(fl, TmpDir))
            /\ frame' = [frame EXCEPT !.left = @ \ {fl}]
            /\ pc' = pc
         \/ /\ fs' = TmpExit(ZipExit(fs, frame.out_file, TRUE), TRUE)
            /\ frame' = [frame EXCEPT !.phase = "raised"]
            /\ pc' = AfterKmz(TRUE)
    /\ UNCHANGED <<entry, listing, args, n, _files, log, raw_gps, converted>>

\* Both with-blocks are left normally: the archive is closed, the staging
\* directory removed, write_kmz returns.
KmzReturn ==
    /\ pc = "in_kmz"
    /\ frame.phase = "zip_files"
    /\ frame.left = {}
    /\ fs' = TmpExit(ZipExit(fs, frame.out_file, FALSE), FALSE)
    /\ frame' = [frame EXCEPT !.phase = "returned"]
    /\ pc' = AfterKmz(FALSE)
    /\ UNCHANGED <<entry, listing, args, n, _files, log, raw_gps, converted>>

Next ==
    \/ MainImage
    \/ MainLoopEnd
    \/ MainKml
    \/ MainKmz
    \/ KmzEnter
    \/ KmzCopy
    \/ KmzWriteKml
    \/ KmzZipOpen
    \/ KmzZipKml
    \/ KmzZipFile
    \/ KmzReturn
    \/ MainGeojson
    \/ MainCsv

Spec == Init /\ [][Next]_vars

\* ------------------------------------------------- write_kmz called directly
\* Records for a direct call: images of two directories, two of them with
\* the same file name.
KmzPaths == {Directory \o <<N_a_jpg>>, OtherDir \o <<N_a_jpg>>, Directory \o <<N_a_jpeg>>}
KmzRecords == {<<p, <<146481, -266560>>, 12, T_exif>> : p \in KmzPaths}

InitKmz ==
    /\ entry = "write_kmz"
    /\ pc = "call_kmz"
    /\ listing = <<>>
    /\ args = NoArgs
    /\ n = 0
    /\ _files \in SeqUpTo(KmzRecords, MaxRecords)
    /\ fs \in {NoFiles, Put(NoFiles, Dest("kmz", S_o), OldFile)}
    /\ log = <<>>
    /\ frame = IdleFrame
    /\ raw_gps = [k \in {} |-> 0]
    /\ converted = <<>>

NextKmz ==
    \/ KmzEnter
    \/ KmzCopy
    \/ KmzWriteKml
    \/ KmzZipOpen
    \/ KmzZipKml
    \/ KmzZipFile
    \/ KmzReturn

SpecKmz == InitKmz /\ [][NextKmz]_vars

\* ------------------------------------------------- write_csv called directly
\* Records for a direct call: a plain name, a name with a comma, a name with
\* a line break; an EXIF timestamp, a free-format one, and str(None).
CsvPaths == {Directory \o <<N_a_jpg>>, Directory \o <<N_bc_jpg>>, Directory \o <<N_de_jpg>>}
CsvRecords == {<<p, <<146481, -266560>>, 12, t>> : p \in CsvPaths, t \in {T_exif, T_free, S_None}}

InitCsv ==
    /\ entry = "write_csv"
    /\ pc = "call_csv"
    /\ listing = <<>>
    /\ args = NoArgs
    /\ n = 0
    /\ _files \in SeqUpTo(CsvRecords, MaxRecords)
    /\ fs = NoFiles
    /\ log = <<>>
    /\ frame = IdleFrame
    /\ raw_gps = [k \in {} |-> 0]
    /\ converted = <<>>

CsvCall ==
    /\ pc = "call_csv"
    /\ \E oc \in Outcomes(Len(_files)) :
         LET r == write_csv(fs, Dest("csv", S_o), _files, oc)
         IN  /\ fs' = r.sys
             /\ pc' = IF r.raised THEN "raised" ELSE "returned"
    /\ UNCHANGED <<entry, listing, args, n, _files, log, frame, raw_gps, converted>>

NextCsv == CsvCall

SpecCsv == InitCsv /\ [][NextCsv]_vars

\* ------------------------------------------ get_lat_lon_elev called directly
\* Hemisphere values a GPS ref tag can hold: the four letters, a lower-case
\* letter and an empty string.
Hemis == {S_N, S_S, S_E, S_W, <<"n">>, <<>>}
Triples == [1..3 -> 0..MaxMag]
OptTag(key, S) == {[k \in {} |-> 0]} \cup {[k \in {key} |-> v] : v \in S}
GpsTagSets ==
    {Merge(Merge(Merge(a, b), Merge(c, d)), e) :
        a \in OptTag("GPSLatitude", Triples), b \in OptTag("GPSLatitudeRef", Hemis),
        c \in OptTag("GPSLongitude", Triples), d \in OptTag("GPSLongitudeRef", Hemis),
        e \in OptTag("GPSAltitude", {12})}

InitDms ==
    /\ entry = "get_lat_lon_elev"
    /\ pc = "call_dms"
    /\ listing = <<>>
    /\ args = NoArgs
    /\ n = 0
    /\ _files = <<>>
    /\ fs = NoFiles
    /\ log = <<>>
    /\ frame = IdleFrame
    /\ raw_gps \in GpsTagSets
    /\ converted = <<>>

DmsCall ==
    /\ pc = "call_dms"
    /\ converted' = get_lat_lon_elev(raw_gps)
    /\ pc' = "returned"
    /\ UNCHANGED <<entry, listing, args, n, _files, fs, log, frame, raw_gps>>

NextDms == DmsCall

SpecDms == InitDms /\ [][NextDms]_vars

\* ===================================================================== claims

\* ------------------------------------------------------------------------ C9
\* The magnitude of a DMS triple, in arc-seconds.
Magnitude(t) == (t[1] * 3600) + (t[2] * 60) + t[3]
LatTriple == Get(raw_gps, "GPSLatitude", <<0, 0, 0>>)
LonTriple == Get(raw_gps, "GPSLongitude", <<0, 0, 0>>)
LatRef == Get(raw_gps, "GPSLatitudeRef", S_N)
LonRef == Get(raw_gps, "GPSLongitudeRef", S_E)

\* C9 as stated: the converted latitude and longitude are d + m/60 + s/3600,
\* negated when and only when the hemisphere value is 'S' or 'W', for every
\* hemisphere value the record builder passes on from the raw GPS tags.
C9_NegatedIffSouthOrWest ==
    pc = "returned" /\ entry = "get_lat_lon_elev" =>
        /\ converted[1][1] = IF LatRef \in {S_S, S_W}
                             THEN -Magnitude(LatTriple) ELSE Magnitude(LatTriple)
        /\ converted[1][2] = IF LonRef \in {S_S, S_W}
                             THEN -Magnitude(LonTriple) ELSE Magnitude(LonTriple)

\* The substrings of 'NE'.
NotNegated == {<<>>, S_N, S_E, S_NE}

\* C9 amended: d + m/60 + s/3600 for 'N' and 'E', its negation for 'S' and
\* 'W'; for any other value passed on from the raw tags the result is negated
\* unless the value is a substring of 'NE' (the empty string, 'N', 'E', 'NE').
C9_NegatedUnlessWithinNE ==
    pc = "returned" /\ entry = "get_lat_lon_elev" =>
        /\ LatRef \in {S_N, S_E} => converted[1][1] = Magnitude(LatTriple)
        /\ LatRef \in {S_S, S_W} => converted[1][1] = -Magnitude(LatTriple)
        /\ LonRef \in {S_N, S_E} => converted[1][2] = Magnitude(LonTriple)
        /\ LonRef \in {S_S, S_W} => converted[1][2] = -Magnitude(LonTriple)
        /\ converted[1][1] = IF LatRef \in NotNegated
                             THEN Magnitude(LatTriple) ELSE -Magnitude(LatTriple)
        /\ converted[1][2] = IF LonRef \in NotNegated
                             THEN Magnitude(LonTriple) ELSE -Magnitude(LonTriple)

\* A southern latitude and a lower-case longitude ref, both converted to a
\* negative value.
C9_Witness ==
    /\ pc = "returned" /\ entry = "get_lat_lon_elev"
    /\ LatRef = S_S /\ Magnitude(LatTriple) > 0 /\ converted[1][1] < 0
    /\ LonRef = <<"n">> /\ Magnitude(LonTriple) > 0 /\ converted[1][2] < 0

\* ------------------------------------------------------------------------ C8
\* The lines of a text that ends with a line break.
TextLines(text) ==
    LET parts == Split(text, "\n") IN SubSeq(parts, 1, Len(parts) - 1)

CsvFieldsMatch(line, rec) ==
    LET f == Split(line, ",")
    IN  /\ Len(f) >= 5
        /\ f[1] = PathName(rec[1])
        /\ f[2] = FloatStr(rec[2][1], 3600)
        /\ f[3] = FloatStr(rec[2][2], 3600)
        /\ f[4] = FloatStr(rec[3], 1)
        /\ f[5] = rec[4]

CsvLinesMatch ==
    LET lines == TextLines(fs[Dest("csv", S_o)].text)
    IN  /\ Len(lines) = Len(_files) + 1
        /\ lines[1] \o <<"\n">> = CsvHeader
        /\ \A j \in 1..Len(_files) : CsvFieldsMatch(lines[j + 1], _files[j])

\* C8 as stated: for every record list write_csv produces record_count + 1
\* lines, header first, rows in record order, and the first five comma-split
\* fields of each row are the record's name, latitude, longitude, elevation
\* and timestamp.
C8_RowsSplitIntoFields ==
    pc = "returned" /\ entry = "write_csv" => CsvLinesMatch

HasChar(str, c) == \E k \in 1..Len(str) : str[k] = c
CsvSafe(rec) ==
    /\ ~HasChar(PathName(rec[1]), ",") /\ ~HasChar(rec[4], ",")
    /\ ~HasChar(PathName(rec[1]), "\n") /\ ~HasChar(rec[4], "\n")
    /\ ~HasChar(PathStr(Resolve(rec[1])), "\n")

\* C8 amended: the same, for every record list in which no image file name
\* or timestamp holds a comma and no file name, timestamp or resolved path
\* holds a line break.
C8_RowsSplitWhenNoSeparatorInFields ==
    /\ pc = "returned" /\ entry = "write_csv"
    /\ \A j \in 1..Len(_files) : CsvSafe(_files[j])
    => CsvLinesMatch

\* write_csv returned after writing two rows whose fields hold no separator.
C8_Witness ==
    /\ pc = "returned" /\ entry = "write_csv"
    /\ Len(_files) = 2
    /\ \A j \in 1..Len(_files) : CsvSafe(_files[j])
    /\ Len(TextLines(fs[Dest("csv", S_o)].text)) = 3

\* ----------------------------------------------------- write_kmz: C3 C4 C7 C10
\* What is at write_kmz's destination, and the paths inside the staging
\* directory.
Archive == Read(fs, frame.out_file)
Staged == {q \in DOMAIN fs : IsRelativeTo(q, TmpDir)}
ImageCopy(p) == [kind |-> "image", src |-> p]
EntriesHolding(data) == {k \in 1..Len(Archive.entries) : Archive.entries[k].data = data}
KmlEntries == {k \in 1..Len(Archive.entries) : Archive.entries[k].data.kind = "kml"}

\* C3 as stated: after write_kmz raised, at whatever step, the destination
\* does not exist or is what it was before the call.
C3_FailureLeavesDestinationAlone ==
    frame.phase = "raised" => Archive = frame.pre

\* C4: whenever write_kmz is not running (it has not been entered, it
\* returned, or it raised at any step) nothing of the staging directory
\* exists.
C4_StagingRemovedOnEveryExit ==
    pc # "in_kmz" => Staged = {}

\* write_kmz raised while writing the archive, after two images were staged,
\* and the staging directory is gone.
C4_Witness ==
    /\ frame.phase = "raised"
    /\ frame.k = 2
    /\ Archive # frame.pre
    /\ Staged = {}

\* C7 as stated: after a successful write_kmz the archive holds exactly one
\* KML entry, exactly one entry for each distinct image a record references
\* and nothing else; record_count + 1 entries when the records reference
\* pairwise distinct images.
C7_OneEntryPerDistinctImage ==
    frame.phase = "returned" =>
        LET images == {frame.info[j][1] : j \in 1..Len(frame.info)}
        IN  /\ Cardinality(KmlEntries) = 1
            /\ \A p \in images : Cardinality(EntriesHolding(ImageCopy(p))) = 1
            /\ Len(Archive.entries) = 1 + Cardinality(images)
            /\ Cardinality(images) = Len(frame.info)
                   => Len(Archive.entries) = Len(frame.info) + 1

\* C10 as stated: after a successful write_kmz each Placemark's img src and
\* Icon href name an entry of the archive, and that entry is the copy of the
\* Placemark's own record's image.
C10_PlacemarkReferencesOwnImage ==
    frame.phase = "returned" =>
        \A k \in KmlEntries :
            LET doc == Archive.entries[k].data
            IN  /\ Len(doc.placemarks) = Len(frame.info)
                /\ \A j \in 1..Len(frame.info) :
                      /\ doc.placemarks[j].src = doc.placemarks[j].href
                      /\ \E e \in 1..Len(Archive.entries) :
                            /\ PathStr(Archive.entries[e].name) = PathStr(doc.placemarks[j].src)
                            /\ Archive.entries[e].data = ImageCopy(frame.info[j][1])

\* ------------------------------------------------------------ main: C1 C2
HasGps(file) == file.readable /\ DOMAIN file.gps # {}
GpsPaths == {listing[k].path : k \in {j \in 1..Len(listing) : HasGps(listing[j].file)}}
\* The images with a GPS block, in traversal order.
ExpectedPaths ==
    LET sel == SelectSeq(listing, LAMBDA e : HasGps(e.file))
    IN  [j \in 1..Len(sel) |-> sel[j].path]
RecordPaths(info) == [j \in 1..Len(info) |-> info[j][1]]

\* The Placemarks of a KML document are all of images with a GPS block.
KmlOnlyGps(doc) ==
    \A j \in 1..Len(doc.placemarks) :
        \E p \in GpsPaths :
            /\ doc.placemarks[j].name = PathName(p)
            /\ PathName(doc.placemarks[j].src) = PathName(p)

ShortcutPath(p, service) ==
    WithSuffix(WithStem(p, PathStem(p) \o <<"_">> \o ServiceStr(service)), S_url)

OutputsOnlyGps ==
    /\ LET f == Read(fs, Dest("kml", S_o))
       IN  f.kind = "kml" => KmlOnlyGps(f)
    /\ LET f == Read(fs, Dest("kmz", S_o))
       IN  f.kind = "zip" =>
             \A k \in 1..Len(f.entries) :
                 LET data == f.entries[k].data
                 IN  /\ data.kind = "image" => data.src \in GpsPaths
                     /\ data.kind = "kml" => KmlOnlyGps(data)
    /\ LET f == Read(fs, Dest("geojson", S_o))
       IN  f.kind = "geojson" =>
             \A j \in 1..Len(f.features) :
                 \E p \in GpsPaths : f.features[j].filepath = PathStr(p)
    /\ LET f == Read(fs, Dest("csv", S_o))
           gpsrows == SelectSeq(_files, LAMBDA rec : rec[1] \in GpsPaths)
           whole == CsvHeader \o CsvRows(gpsrows, Len(gpsrows))
       IN  \* the text is the header and rows of images with a GPS block
           f.kind = "csv" =>
               Len(f.text) <= Len(whole) /\ SubSeq(whole, 1, Len(f.text)) = f.text
    /\ \A q \in DOMAIN fs :
          fs[q].kind = "url" =>
              \E p \in GpsPaths : \E k \in 1..Len(Services) : q = ShortcutPath(p, Services[k])
    /\ \A k \in 1..Len(log) : log[k].op = "url" => log[k].img \in GpsPaths

\* C1: once the loop has consumed every discovered image the record list
\* holds exactly one record for each image with a GPS block, in traversal
\* order, and none for any other image; at every moment no record, no
\* Placemark, archive entry, GeoJSON feature, CSV row or .url shortcut is of
\* an image without a GPS block.
C1_RecordsExactlyGpsImages ==
    /\ entry = "main" /\ n = Len(listing) => RecordPaths(_files) = ExpectedPaths
    /\ \A j \in 1..Len(_files) : _files[j][1] \in GpsPaths
    /\ OutputsOnlyGps

\* A run over one image with a GPS block and one without, shortcuts and all
\* four formats requested, that ran to the end.
C1_Witness ==
    /\ pc = "done"
    /\ Len(listing) = 2 /\ Len(_files) = 1
    /\ \E k \in 1..2 : listing[k].file = ImgNoGps
    /\ args.w_url
    /\ args.kml # None /\ args.kmz # None /\ args.geojson # None /\ args.csv # None

\* C2 as stated: an image that cannot be opened is skipped and never aborts
\* the run.
C2_UnreadableImageNeverAborts ==
    /\ Len(log) > 0
    /\ log[Len(log)].op = "read"
    /\ \E k \in 1..Len(listing) :
          listing[k].path = log[Len(log)].img /\ ~listing[k].file.readable
    => pc # "aborted"

\* ------------------------------------------------------------ main: C5 C6
ExportOrder == <<"kml", "kmz", "geojson", "csv">>
OrderIndex(fmt) == CHOOSE k \in 1..Len(ExportOrder) : ExportOrder[k] = fmt
ExportEvents == {k \in 1..Len(log) : log[k].op = "export"}
Requested(fmt) ==
    CASE fmt = "kml" -> args.kml # None
      [] fmt = "kmz" -> args.kmz # None
      [] fmt = "geojson" -> args.geojson # None
      [] fmt = "csv" -> args.csv # None

\* The destination of fmt holds the whole document of the record list info.
FullyWritten(fmt, info) ==
    LET d == Dest(fmt, S_o)
        f == Read(fs, d)
        ok == [fail |-> "none", at |-> Len(info)]
    IN  CASE fmt = "kml" -> f = write_kml(NoFiles, d, info, ok).sys[d]
          [] fmt = "geojson" -> f = write_geojson(NoFiles, d, info, ok).sys[d]
          [] fmt = "csv" -> f = write_csv(NoFiles, d, info, ok).sys[d]
          [] fmt = "kmz" -> f.kind = "zip" /\ f.complete /\ Len(f.entries) = Len(info) + 1

\* C5: exporters are invoked in the order KML, KMZ, GeoJSON, CSV; an
\* exporter whose file is not fully written is the last one invoked, and the
\* run is then aborted (or, for KMZ, still inside write_kmz); so every file
\* an earlier exporter wrote in full is still in place, unchanged.
C5_FailureAbortsAndKeepsEarlierFiles ==
    \A k \in ExportEvents :
        /\ \A l \in ExportEvents : k < l => OrderIndex(log[k].what) < OrderIndex(log[l].what)
        /\ ~FullyWritten(log[k].what, log[k].info) =>
              /\ \A l \in ExportEvents : l <= k
              /\ pc \in {"aborted", "call_kmz", "in_kmz"}
              /\ pc = "aborted" \/ log[k].what = "kmz"

\* KML was written in full, write_geojson then failed, and the requested CSV
\* was never started.
C5_Witness ==
    /\ pc = "aborted"
    /\ Len(_files) >= 1
    /\ args.csv # None
    /\ Read(fs, Dest("csv", S_o)) = Absent
    /\ \E k, l \in ExportEvents :
          /\ log[k].what = "kml" /\ FullyWritten("kml", log[k].info)
          /\ log[l].what = "geojson" /\ ~FullyWritten("geojson", log[l].info)

ReadsBefore(k) == {l \in 1..(k - 1) : log[l].op = "read"}
\* The image was taken through the whole loop body.
Processed(r) ==
    \/ \E l \in (r + 1)..Len(log) : log[l].op \in {"read", "export"}
    \/ pc # "aborted"

\* C6: no exporter is invoked before every discovered image was read; each
\* format is exported at most once, never when it was not requested and
\* exactly once in a run that reaches its end; each invocation gets the
\* complete record list.  A shortcut is written while its image is the
\* latest one read, only with -u, only for a recognised requested service,
\* and once per (image, service); an image with a GPS block that went
\* through the loop body has one for every recognised requested service.
C6_BatchExportersStreamingShortcuts ==
    /\ \A k \in ExportEvents :
          /\ Cardinality(ReadsBefore(k)) = Len(listing)
          /\ log[k].info = _files
          /\ RecordPaths(log[k].info) = ExpectedPaths
    /\ \A j \in 1..Len(ExportOrder) :
          LET c == Cardinality({k \in ExportEvents : log[k].what = ExportOrder[j]})
          IN  /\ c <= 1
              /\ ~Requested(ExportOrder[j]) => c = 0
              /\ pc = "done" /\ Requested(ExportOrder[j]) => c = 1
    /\ \A u \in 1..Len(log) :
          log[u].op = "url" =>
              /\ args.w_url
              /\ log[u].what \in Range(Services) \cap Range(args.services)
              /\ ReadsBefore(u) # {}
              /\ LET r == CHOOSE x \in ReadsBefore(u) : \A y \in ReadsBefore(u) : y <= x
                 IN  log[r].img = log[u].img
              /\ \A v \in 1..Len(log) :
                    log[v].op = "url" /\ log[v].img = log[u].img
                        /\ log[v].what = log[u].what => v = u
    /\ \A r \in 1..Len(log) :
          log[r].op = "read" /\ log[r].img \in GpsPaths /\ Processed(r) /\ args.w_url =>
              \A sv \in Range(Services) \cap Range(args.services) :
                  \E u \in (r + 1)..Len(log) :
                      log[u].op = "url" /\ log[u].img = log[r].img /\ log[u].what = sv

\* A finished run with -u and two recognised services over two images with
\* GPS blocks, KML and CSV requested and KMZ not.
C6_Witness ==
    /\ pc = "done"
    /\ args.w_url /\ Len(args.services) > 1
    /\ Len(_files) = 2
    /\ Cardinality({u \in 1..Len(log) : log[u].op = "url"}) = 4
    /\ args.kml # None /\ args.csv # None /\ args.kmz = None
    /\ Cardinality(ExportEvents) >= 2

====
